---- MODULE Spec2Model ----
(***************************************************************************)
(* A model of miro-svg-dl.py: the paginated item enumerator (get_items),   *)
(* the candidate-URL probe loop, the filename resolver and the downloader  *)
(* of main(), with the output directory and the run counters as state.     *)
(* Text (file names, content types, bodies) is a sequence of one-character *)
(* strings, so the string operations of the script are computed, not       *)
(* assumed.                                                                *)
(***************************************************************************)
EXTENDS Integers, Sequences, FiniteSets, TLC

(***************************************************************************)
(* Bounds of the model.                                                    *)
(***************************************************************************)
MaxItems == 2       \* items the server hands out in one run
MaxBusyTypes == 1   \* item types, in scan order, whose listings hold items
MaxPages == 2       \* pages of one item type
MaxNameLen == 4     \* length of the names the sanitizer is exercised on
MaxPad == 1         \* leading whitespace put before a probed body

(***************************************************************************)
(* Python string operations, on sequences of characters.                   *)
(***************************************************************************)
UpperChars == <<"A","B","C","D","E","F","G","H","I","J","K","L","M",
                "N","O","P","Q","R","S","T","U","V","W","X","Y","Z">>
LowerChars == <<"a","b","c","d","e","f","g","h","i","j","k","l","m",
                "n","o","p","q","r","s","t","u","v","w","x","y","z">>

\* str.lower(), one character
LowerChar(c) ==
    IF \E i \in 1..Len(UpperChars) : UpperChars[i] = c
    THEN LowerChars[CHOOSE i \in 1..Len(UpperChars) : UpperChars[i] = c]
    ELSE c

\* str.lower()
Lower(s) == [i \in 1..Len(s) |-> LowerChar(s[i])]

\* str.startswith(p)
StartsWith(s, p) == Len(s) >= Len(p) /\ SubSeq(s, 1, Len(p)) = p

\* str.endswith(p)
EndsWith(s, p) == Len(s) >= Len(p) /\ SubSeq(s, Len(s) - Len(p) + 1, Len(s)) = p

\* `sub in s`
Contains(s, sub) ==
    \E i \in 1..(Len(s) - Len(sub) + 1) : SubSeq(s, i, i + Len(sub) - 1) = sub

\* s[:n]
Prefix(s, n) == SubSeq(s, 1, IF Len(s) < n THEN Len(s) ELSE n)

\* str.strip(chars): leading and trailing characters of the set cs removed
StripChars(s, cs) ==
    LET keep == {i \in 1..Len(s) : s[i] \notin cs}
    IN  IF keep = {} THEN <<>>
        ELSE SubSeq(s, CHOOSE i \in keep : \A j \in keep : i <= j,
                       CHOOSE i \in keep : \A j \in keep : i >= j)

\* what str.strip() with no argument removes
Whitespace == {" ", "\t", "\n", "\r"}

\* str.strip()
Strip(s) == StripChars(s, Whitespace)

\* str.rsplit(sep, 1)[0]: the text before the last occurrence of sep, or all
\* of s when sep does not occur
RSplitHead(s, sep) ==
    LET at == {i \in 1..(Len(s) - Len(sep) + 1) : SubSeq(s, i, i + Len(sep) - 1) = sep}
    IN  IF at = {} THEN s
        ELSE SubSeq(s, 1, (CHOOSE i \in at : \A j \in at : i >= j) - 1)

Digit == <<"0","1","2","3","4","5","6","7","8","9">>

RECURSIVE IntToStr(_)
\* the f-string rendering of a non-negative counter
IntToStr(n) ==
    IF n < 10 THEN <<Digit[n + 1]>>
    ELSE IntToStr(n \div 10) \o <<Digit[(n % 10) + 1]>>

DotSvg == <<".", "s", "v", "g">>
SvgWord == <<"s", "v", "g">>
ImageSvg == <<"i","m","a","g","e","/","s","v","g">>
XmlDecl == <<"<", "?", "x", "m", "l">>
SvgTag == <<"<", "s", "v", "g">>

(***************************************************************************)
(* Filename sanitization, lines 183-190.                                   *)
(***************************************************************************)
IllegalChars == {"<", ">", ":", "\"", "/", "\\", "|", "?", "*"}

\* re.sub(r'[<>:"/\\|?*]', '_', s)
ReplaceIllegal(s) == [i \in 1..Len(s) |-> IF s[i] \in IllegalChars THEN "_" ELSE s[i]]

\* safe_filename.lower().endswith('.svg')
HasSvgSuffix(s) == EndsWith(Lower(s), DotSvg)

Sanitize(s) ==
    LET stripped == StripChars(ReplaceIllegal(s), {".", " "})
    IN  IF ~HasSvgSuffix(stripped) THEN stripped \o DotSvg ELSE stripped

(***************************************************************************)
(* Probe classification, lines 139-153.                                    *)
(***************************************************************************)
SvgWindow == 200    \* test_resp.text[:200]
StatusOk == 200     \* the status get_items, the probe and the HEAD accept

\* content_type = test_resp.headers.get('content-type', '').lower()
ContentType(header) == Lower(header)

\* the condition of lines 146-151 grouped as (A or B) and C or D or E
is_svg_content_grouped(content_type, text) ==
    \/ /\ (Contains(content_type, SvgWord) \/ StartsWith(Strip(text), XmlDecl))
       /\ Contains(Prefix(text, SvgWindow), SvgWord)
    \/ StartsWith(Strip(text), SvgTag)
    \/ Contains(content_type, ImageSvg)

\* `A or B and C or D or E` groups as A or (B and C) or D or E
is_svg_content(content_type, text) ==
    \/ Contains(content_type, SvgWord)
    \/ (StartsWith(Strip(text), XmlDecl) /\ Contains(Prefix(text, SvgWindow), SvgWord))
    \/ StartsWith(Strip(text), SvgTag)
    \/ Contains(content_type, ImageSvg)

\* test_resp.status_code == 200 and is_svg_content
ProbeMatches(resp) ==
    resp.status = StatusOk /\ is_svg_content(ContentType(resp.ctype), resp.text)

(***************************************************************************)
(* Values of the run.                                                      *)
(***************************************************************************)
scanned_types == <<"image", "document", "shape", "sticky_note", "text", "frame", "app_card">>

\* Python's None and "" for a cursor; both are falsy
NoneCursor == "None"
EmptyCursor == ""
PageLimit == 50

\* the listing URL as its query parameters; NoUrl is `url = None`
NoUrl == [type |-> "None", limit |-> 0, cursor |-> NoneCursor]

\* line 29: the first page's URL
FirstUrl(item_type) == [type |-> item_type, limit |-> PageLimit, cursor |-> NoneCursor]

\* lines 43-46: the next page's URL, or None when the cursor is falsy
NextUrl(c) ==
    IF c # NoneCursor /\ c # EmptyCursor
    THEN [type |-> "None", limit |-> 0, cursor |-> c]
    ELSE NoUrl

\* a resource URL: the text before the first '?' and the text after it
NoSrc == [base |-> "", query |-> ""]

\* `if src:`
HasSrc(src) == src # NoSrc

\* src.split('?')[0]
base_url(src) == [base |-> src.base, query |-> ""]

\* the candidate list with its first two entries in the other order
download_urls_to_try_swapped(src) ==
    IF HasSrc(src)
    THEN << [base |-> src.base, query |-> "redirect=true"],
            [base |-> src.base, query |-> "format=original&redirect=true"],
            [base |-> src.base, query |-> "format=original"],
            base_url(src),
            src >>
    ELSE <<>>

\* lines 115-126
download_urls_to_try(src) ==
    IF HasSrc(src)
    THEN << [base |-> src.base, query |-> "format=original&redirect=true"],
            [base |-> src.base, query |-> "redirect=true"],
            [base |-> src.base, query |-> "format=original"],
            base_url(src),
            src >>
    ELSE <<>>

\* an optional string: None, or a string that may be empty
None == [some |-> FALSE, val |-> <<>>]
Some(s) == [some |-> TRUE, val |-> s]

\* `if original_filename:` is false of None and of ""
Truthy(x) == x.some /\ x.val # <<>>

\* lines 57-76. The Content-Disposition header is "none" (absent, empty or
\* without a filename token), "quoted" (filename="value", value non-empty and
\* free of quotes) or "unquoted" (filename=value up to the next semicolon).
get_filename_from_headers(h) ==
    IF h.exc \/ h.status # StatusOk \/ h.cd.kind = "none" THEN None
    ELSE IF h.cd.kind = "quoted" THEN Some(h.cd.value)
    ELSE Some(Strip(h.cd.value))

\* Response.raise_for_status(): raises for a 4xx or 5xx status
FirstErrorStatus == 400
EndErrorStatus == 600
Raises(status) == FirstErrorStatus <= status /\ status < EndErrorStatus

\* a collision check that never sees a file
Exists_never(files, name) == FALSE

\* Path.exists() of a name in the output directory
Exists(files, name) == name \in DOMAIN files

\* lines 181-193: the first destination name
FirstName(original_filename, it) ==
    IF Truthy(original_filename) THEN Sanitize(original_filename.val)
    ELSE it.id \o DotSvg

\* lines 203-207: the name tried for a counter
CounterName(original_filename, it, counter) ==
    IF Truthy(original_filename)
    THEN RSplitHead(Sanitize(original_filename.val), DotSvg)
            \o <<"_">> \o IntToStr(counter) \o DotSvg
    ELSE it.id \o <<"_">> \o IntToStr(counter) \o DotSvg

RECURSIVE CollisionLoop(_, _, _, _, _)
\* lines 201-209: while dest.exists(): next counter
CollisionLoop(files, filename, original_filename, it, counter) ==
    IF Exists(files, filename)
    THEN CollisionLoop(files, CounterName(original_filename, it, counter),
                       original_filename, it, counter + 1)
    ELSE filename

\* lines 181-209
ResolveDest(files, original_filename, it) ==
    CollisionLoop(files, FirstName(original_filename, it), original_filename, it, 1)

\* dest.write_bytes(r.content)
WriteBytes(files, name, content) ==
    [n \in DOMAIN files \cup {name} |-> IF n = name THEN content ELSE files[n]]

\* both name counters incremented
NameCounters_both(orig, gen, original_filename) == <<orig + 1, gen + 1>>

\* lines 218-221: <<files_with_original_names, files_with_generated_names>>
NameCounters(orig, gen, original_filename) ==
    IF Truthy(original_filename) THEN <<orig + 1, gen>> ELSE <<orig, gen + 1>>

(***************************************************************************)
(* What the server and the file system may present.                        *)
(***************************************************************************)
Str_report == <<"r","e","p","o","r","t",".","s","v","g">>
Str_report_1 == <<"r","e","p","o","r","t","_","1",".","s","v","g">>
Str_REPORT == <<"R","E","P","O","R","T",".","S","V","G">>
Str_space == <<" ">>
Str_id7 == <<"7">>
Str_id7svg == <<"7",".","s","v","g">>
Str_ctSvg == <<"i","m","a","g","e","/","s","v","g","+","x","m","l">>
Str_ctSVG == <<"I","M","A","G","E","/","S","V","G">>
Str_ctHtml == <<"t","e","x","t","/","h","t","m","l">>
Str_ctXSvg == <<"x","/","s","v","g">>
Str_html == <<"<","h","t","m","l">>
Str_png == <<"p","n","g">>

ItemIds == {Str_id7}
Srcs == {NoSrc, [base |-> "u", query |-> "sig=1"]}
Items == [id : ItemIds, src : Srcs]
NoItem == [id |-> <<>>, src |-> NoSrc]

\* the pages a listing call may return: at most n items
PageData(n) == UNION {[1..k -> Items] : k \in 0..n}

ListingStatuses == {200, 403}
Cursors == {NoneCursor, EmptyCursor, "c1"}

\* the directories a run may start on
InitialDirs ==
    { [n \in {} |-> "old"],
      [n \in {Str_report, Str_report_1} |-> "old"],
      [n \in {Str_report, Str_REPORT, Str_id7svg} |-> "old"] }

ProbeOutcomes ==
    { [exc |-> TRUE,  status |-> 0,   ctype |-> <<>>,       text |-> <<>>],
      [exc |-> FALSE, status |-> 200, ctype |-> Str_ctSvg,  text |-> Str_png],
      [exc |-> FALSE, status |-> 200, ctype |-> <<>>,       text |-> <<" ">> \o SvgTag],
      [exc |-> FALSE, status |-> 200, ctype |-> Str_ctHtml, text |-> Str_html],
      [exc |-> FALSE, status |-> 404, ctype |-> Str_ctSvg,  text |-> SvgTag] }

HeadNames == {Str_report, Str_REPORT}
NoCd == [kind |-> "none", value |-> <<>>]
HeadOutcomes ==
    { [exc |-> TRUE,  status |-> 0,   cd |-> NoCd],
      [exc |-> FALSE, status |-> 404, cd |-> [kind |-> "quoted", value |-> Str_report]],
      [exc |-> FALSE, status |-> 200, cd |-> NoCd],
      [exc |-> FALSE, status |-> 200, cd |-> [kind |-> "unquoted", value |-> Str_space]] }
    \cup { [exc |-> FALSE, status |-> 200, cd |-> [kind |-> "quoted", value |-> v]] :
             v \in HeadNames }

DownloadOutcomes ==
    { [exc |-> TRUE,  status |-> 0,   content |-> ""],
      [exc |-> FALSE, status |-> 200, content |-> "svg"],
      [exc |-> FALSE, status |-> 304, content |-> ""],
      [exc |-> FALSE, status |-> 404, content |-> "err"] }

(***************************************************************************)
(* State.                                                                  *)
(***************************************************************************)
VARIABLES
    pc,                          \* where main() and the generator stand
    typeIdx,                     \* index of item_type in scanned_types
    url,                         \* get_items: url
    pageItems,                   \* get_items: items of the page not yet yielded
    cursor,                      \* get_items: cursor of the page
    item_count,                  \* main: item_count
    item,                        \* main: item
    candIdx,                     \* main: position in download_urls_to_try
    successful_url,              \* main: successful_url
    original_filename,           \* main: original_filename
    dest,                        \* main: dest (its file name)
    total_saved,                 \* main: total_saved
    files_with_original_names,   \* main: files_with_original_names
    files_with_generated_names,  \* main: files_with_generated_names
    fs,                          \* the output directory: file name -> content
    exc,                         \* the exception that left main(), or "none"
    pagesFetched,                \* pages of this item type fetched so far
    itemsServed,                 \* items the server handed out in the run
    servedCount,                 \* items the server handed out for this item type
    fs0,                         \* the output directory when the run began
    gap,                         \* ms slept between the last two requests, -1: one request
    slept,                       \* ms slept since the last request
    reqKind,                     \* the last request: none, list, probe, head, get
    reqUrl,                      \* the resource URL of the last probe, HEAD or GET
    probeLog,                    \* the probes of this item: URL and classification
    probeExc,                    \* the last probe of this item raised an exception
    dl_status,                   \* status of this item's download GET, 0: none
    dl_result,                   \* download(): none, ok, raised
    sanPc, sanIn, sanOnce, sanTwice,   \* the sanitizer applied to a name
    clsPc, clsResp, clsMatched         \* the classifier applied to a response

runVars == <<pc, typeIdx, url, pageItems, cursor, item_count, item, candIdx,
             successful_url, original_filename, dest, total_saved,
             files_with_original_names, files_with_generated_names, fs, exc,
             pagesFetched, itemsServed, servedCount, fs0, gap, slept, reqKind,
             reqUrl, probeLog, probeExc, dl_status, dl_result>>
sanVars == <<sanPc, sanIn, sanOnce, sanTwice>>
clsVars == <<clsPc, clsResp, clsMatched>>
vars == <<runVars, sanVars, clsVars>>

NoResp == [status |-> 0, ctype |-> <<>>, text |-> <<>>]

SanIdle == sanPc = "off" /\ sanIn = <<>> /\ sanOnce = <<>> /\ sanTwice = <<>>
ClsIdle == clsPc = "off" /\ clsResp = NoResp /\ clsMatched = FALSE

\* lines 90-100: the state when the loop over scanned_types begins
RunInit ==
    /\ pc = "next_type"
    /\ typeIdx = 1
    /\ url = NoUrl
    /\ pageItems = <<>>
    /\ cursor = NoneCursor
    /\ item_count = 0
    /\ item = NoItem
    /\ candIdx = 0
    /\ successful_url = NoSrc
    /\ original_filename = None
    /\ dest = <<>>
    /\ total_saved = 0
    /\ files_with_original_names = 0
    /\ files_with_generated_names = 0
    /\ fs \in InitialDirs
    /\ fs0 = fs
    /\ exc = "none"
    /\ pagesFetched = 0
    /\ itemsServed = 0
    /\ servedCount = 0
    /\ gap = -1
    /\ slept = 0
    /\ reqKind = "none"
    /\ reqUrl = NoSrc
    /\ probeLog = <<>>
    /\ probeExc = FALSE
    /\ dl_status = 0
    /\ dl_result = "none"

RunIdle == RunInit /\ DOMAIN fs = {}

Init == RunInit /\ SanIdle /\ ClsIdle

(***************************************************************************)
(* The run: one action per step of main() and of the generator get_items.  *)
(***************************************************************************)
SleepPage == 250    \* time.sleep(0.25)
SleepProbe == 300   \* time.sleep(0.3)

\* a request is issued after sleeping `before` more ms
Request(kind, u, before) ==
    /\ gap' = IF reqKind = "none" THEN -1 ELSE slept + before
    /\ slept' = 0
    /\ reqKind' = kind
    /\ reqUrl' = u

\* The locals of the loop body (item, successful_url, original_filename, dest)
\* are dead once the item is done: each is assigned again before it is read.
\* They are cleared with the item's log when the generator is resumed, so
\* that states differing only in dead locals are one state.
ClearItem ==
    /\ item' = NoItem
    /\ candIdx' = 0
    /\ successful_url' = NoSrc
    /\ original_filename' = None
    /\ dest' = <<>>
    /\ probeLog' = <<>>
    /\ probeExc' = FALSE
    /\ dl_status' = 0
    /\ dl_result' = "none"

\* lines 102-105 and 29-32: the next item type's scan begins
StartType ==
    /\ pc = "next_type"
    /\ url' = FirstUrl(scanned_types[typeIdx])
    /\ item_count' = 0
    /\ pagesFetched' = 0
    /\ servedCount' = 0
    /\ pc' = "fetch"
    /\ UNCHANGED <<typeIdx, pageItems, cursor, item, candIdx, successful_url,
                   original_filename, dest, total_saved, files_with_original_names,
                   files_with_generated_names, fs, exc, itemsServed, fs0, gap, slept,
                   reqKind, reqUrl, probeLog, probeExc, dl_status, dl_result,
                   sanVars, clsVars>>

\* lines 34-42: one page is requested; a status other than 200 raises
\* RuntimeError, which nothing in main() catches
FetchPage ==
    /\ pc = "fetch"
    /\ \E status \in ListingStatuses, data \in PageData(IF typeIdx <= MaxBusyTypes THEN MaxItems - itemsServed ELSE 0),
          c \in Cursors :
        /\ (pagesFetched + 1 >= MaxPages) => NextUrl(c) = NoUrl
        /\ Request("list", NoSrc, 0)
        /\ pagesFetched' = pagesFetched + 1
        /\ IF status # StatusOk
           THEN /\ exc' = "RuntimeError"
                /\ pc' = "crashed"
                /\ UNCHANGED <<pageItems, cursor, itemsServed, servedCount,
                   sanVars, clsVars>>
           ELSE /\ pageItems' = data
                /\ cursor' = c
                /\ itemsServed' = itemsServed + Len(data)
                /\ servedCount' = servedCount + Len(data)
                /\ pc' = "yield"
                /\ exc' = exc
    /\ UNCHANGED <<typeIdx, url, item_count, item, candIdx, successful_url,
                   original_filename, dest, total_saved, files_with_original_names,
                   files_with_generated_names, fs, fs0, probeLog, probeExc, dl_status, dl_result,
                   sanVars, clsVars>>

\* lines 41, 105-129, 168-171: the generator yields the next item of the page;
\* an item without a resource URL has no candidates and is skipped
YieldItem ==
    /\ pc = "yield"
    /\ pageItems # <<>>
    /\ item' = Head(pageItems)
    /\ pageItems' = Tail(pageItems)
    /\ item_count' = item_count + 1
    /\ successful_url' = NoSrc
    /\ original_filename' = None
    /\ dest' = <<>>
    /\ probeLog' = <<>>
    /\ probeExc' = FALSE
    /\ dl_status' = 0
    /\ dl_result' = "none"
    /\ IF download_urls_to_try(Head(pageItems).src) = <<>>
       THEN candIdx' = 0 /\ pc' = "yield"
       ELSE candIdx' = 1 /\ pc' = "probe"
    /\ UNCHANGED <<typeIdx, url, cursor, total_saved, files_with_original_names,
                   files_with_generated_names, fs, exc, pagesFetched, itemsServed,
                   servedCount, fs0, gap, slept, reqKind, reqUrl,
                   sanVars, clsVars>>

\* lines 42-47, 227: the page is used up: next URL, sleep, and either the
\* next page or the end of this item type's scan
EndPage ==
    /\ pc = "yield"
    /\ pageItems = <<>>
    /\ url' = NextUrl(cursor)
    /\ slept' = slept + SleepPage
    /\ IF NextUrl(cursor) # NoUrl
       THEN pc' = "fetch" /\ typeIdx' = typeIdx
       ELSE IF typeIdx < Len(scanned_types)
            THEN pc' = "next_type" /\ typeIdx' = typeIdx + 1
            ELSE pc' = "summary" /\ typeIdx' = typeIdx
    /\ ClearItem
    /\ UNCHANGED <<pageItems, cursor, item_count, total_saved,
                   files_with_original_names, files_with_generated_names, fs, exc,
                   pagesFetched, itemsServed, servedCount, fs0, gap, reqKind, reqUrl,
                   sanVars, clsVars>>

\* lines 130-173: one candidate is probed after a sleep; an exception counts
\* as no match; the first match ends the loop
Probe ==
    /\ pc = "probe"
    /\ \E o \in ProbeOutcomes :
        LET test_url == download_urls_to_try(item.src)[candIdx]
            matched == ~o.exc /\ ProbeMatches(o)
        IN  /\ Request("probe", test_url, SleepProbe)
            /\ probeLog' = Append(probeLog, [url |-> test_url, matched |-> matched])
            /\ probeExc' = o.exc
            /\ IF matched
               THEN /\ successful_url' = test_url
                    /\ pc' = "head"
                    /\ candIdx' = candIdx
               ELSE /\ successful_url' = successful_url
                    /\ IF candIdx < Len(download_urls_to_try(item.src))
                       THEN candIdx' = candIdx + 1 /\ pc' = "probe"
                       ELSE candIdx' = candIdx /\ pc' = "yield"
    /\ UNCHANGED <<typeIdx, url, pageItems, cursor, item_count, item,
                   original_filename, dest, total_saved, files_with_original_names,
                   files_with_generated_names, fs, exc, pagesFetched, itemsServed,
                   servedCount, fs0, dl_status, dl_result,
                   sanVars, clsVars>>

\* line 176: the HEAD request for the original file name
HeadRequest ==
    /\ pc = "head"
    /\ \E h \in HeadOutcomes :
        /\ Request("head", successful_url, 0)
        /\ original_filename' = get_filename_from_headers(h)
    /\ pc' = "resolve"
    /\ UNCHANGED <<typeIdx, url, pageItems, cursor, item_count, item, candIdx,
                   successful_url, dest, total_saved, files_with_original_names,
                   files_with_generated_names, fs, exc, pagesFetched, itemsServed,
                   servedCount, fs0, probeLog, probeExc, dl_status, dl_result,
                   sanVars, clsVars>>

\* lines 181-209: the destination name, with its collisions resolved
ResolveName ==
    /\ pc = "resolve"
    /\ dest' = ResolveDest(fs, original_filename, item)
    /\ pc' = "download"
    /\ UNCHANGED <<typeIdx, url, pageItems, cursor, item_count, item, candIdx,
                   successful_url, original_filename, total_saved,
                   files_with_original_names, files_with_generated_names, fs, exc,
                   pagesFetched, itemsServed, servedCount, fs0, gap, slept, reqKind,
                   reqUrl, probeLog, probeExc, dl_status, dl_result,
                   sanVars, clsVars>>

\* lines 213-226 and 53-55: the download; what download() raises is caught
Download ==
    /\ pc = "download"
    /\ \E d \in DownloadOutcomes :
        /\ Request("get", successful_url, 0)
        /\ dl_status' = d.status
        /\ IF d.exc \/ Raises(d.status)
           THEN /\ dl_result' = "raised"
                /\ UNCHANGED <<fs, total_saved, files_with_original_names,
                               files_with_generated_names,
                   sanVars, clsVars>>
           ELSE /\ dl_result' = "ok"
                /\ fs' = WriteBytes(fs, dest, d.content)
                /\ total_saved' = total_saved + 1
                /\ files_with_original_names' =
                       NameCounters(files_with_original_names,
                                    files_with_generated_names, original_filename)[1]
                /\ files_with_generated_names' =
                       NameCounters(files_with_original_names,
                                    files_with_generated_names, original_filename)[2]
    /\ pc' = "yield"
    /\ UNCHANGED <<typeIdx, url, pageItems, cursor, item_count, item, candIdx,
                   successful_url, original_filename, dest, exc, pagesFetched,
                   itemsServed, servedCount, fs0, probeLog, probeExc,
                   sanVars, clsVars>>

\* lines 229-232: the summary
Summary ==
    /\ pc = "summary"
    /\ pc' = "done"
    /\ UNCHANGED <<typeIdx, url, pageItems, cursor, item_count, item, candIdx,
                   successful_url, original_filename, dest, total_saved,
                   files_with_original_names, files_with_generated_names, fs, exc,
                   pagesFetched, itemsServed, servedCount, fs0, gap, slept, reqKind,
                   reqUrl, probeLog, probeExc, dl_status, dl_result,
                   sanVars, clsVars>>

Next ==
    \/ StartType
    \/ FetchPage
    \/ YieldItem
    \/ EndPage
    \/ Probe
    \/ HeadRequest
    \/ ResolveName
    \/ Download
    \/ Summary

Spec == Init /\ [][Next]_vars

(***************************************************************************)
(* The sanitizer of lines 183-190 applied to a name, and to its own        *)
(* result.                                                                 *)
(***************************************************************************)
SanChars == {"a", ".", " ", "/", "s", "v", "g", "G"}
SanNames == UNION {[1..k -> SanChars] : k \in 1..MaxNameLen}

SanInit ==
    /\ sanPc = "in"
    /\ sanIn \in SanNames
    /\ sanOnce = <<>>
    /\ sanTwice = <<>>
    /\ RunIdle
    /\ ClsIdle

SanitizeOnce ==
    /\ sanPc = "in"
    /\ sanOnce' = Sanitize(sanIn)
    /\ sanPc' = "once"
    /\ UNCHANGED <<sanIn, sanTwice, runVars, clsVars>>

SanitizeTwice ==
    /\ sanPc = "once"
    /\ sanTwice' = Sanitize(sanOnce)
    /\ sanPc' = "twice"
    /\ UNCHANGED <<sanIn, sanOnce, runVars, clsVars>>

SanNext == SanitizeOnce \/ SanitizeTwice

SpecSanitize == SanInit /\ [][SanNext]_vars

(***************************************************************************)
(* The classifier of lines 139-153 applied to a probe response.            *)
(***************************************************************************)
Pad(n) == [i \in 1..n |-> IF i % 2 = 1 THEN " " ELSE "\n"]
Fill(m) == [i \in 1..m |-> "-"]

\* just inside, at and just past the window of text[:200] for "<?xml" + m + "svg"
FillLens == {0, SvgWindow - 9, SvgWindow - 8, SvgWindow - 7}

ClsBodies ==
    { Pad(n) \o head \o Fill(m) \o tail :
        n \in 0..MaxPad, head \in {XmlDecl, SvgTag, Str_html, <<>>},
        m \in FillLens, tail \in {SvgWord, Str_png} }

ClsResponses ==
    [status : {200, 204, 404},
     ctype : {<<>>, Str_ctSvg, Str_ctSVG, Str_ctXSvg, Str_ctHtml},
     text : ClsBodies]

ClsInit ==
    /\ clsPc = "in"
    /\ clsResp \in ClsResponses
    /\ clsMatched = FALSE
    /\ RunIdle
    /\ SanIdle

Classify ==
    /\ clsPc = "in"
    /\ clsMatched' = ProbeMatches(clsResp)
    /\ clsPc' = "out"
    /\ UNCHANGED <<clsResp, runVars, sanVars>>

ClsNext == Classify

SpecClassify == ClsInit /\ [][ClsNext]_vars

(***************************************************************************)
(* Properties.                                                             *)
(***************************************************************************)
Last(q) == q[Len(q)]

\* the name without its last four characters, the extension
DropExt(n) == SubSeq(n, 1, Len(n) - Len(DotSvg))

\* a status in 200..299
Is2xx(status) == 200 <= status /\ status < 300

\* C1: a file of the output directory is never overwritten: the destination
\* of a download does not exist when the collision check has finished, and
\* every step leaves every existing file in place with its content.
C1_NeverOverwrites ==
    /\ [](pc = "download" => dest \notin DOMAIN fs)
    /\ [][\A n \in DOMAIN fs : n \in DOMAIN fs' /\ fs'[n] = fs[n]]_vars

\* C1 witness: a download was written beside the existing file whose name it
\* first resolved to.
C1_Witness ==
    /\ dl_result = "ok"
    /\ FirstName(original_filename, item) \in DOMAIN fs0
    /\ dest # FirstName(original_filename, item)
    /\ dest \in DOMAIN fs
    /\ fs[dest] # "old"

\* C2: a listing request that returns a status other than 200 aborts only
\* its item type's scan: the run is never ended by the listing error.
C2_ListingFailureContained == ~(exc = "RuntimeError" /\ pc = "crashed")

\* C3: a download GET whose final status is not 2xx fails: no file is
\* written, no counter is incremented, and the run continues with the next
\* item.
C3_Non2xxFails ==
    [][(pc = "download" /\ ~Is2xx(dl_status'))
         => /\ dl_result' = "raised"
            /\ fs' = fs
            /\ UNCHANGED <<total_saved, files_with_original_names,
                           files_with_generated_names>>
            /\ pc' = "yield"]_vars

\* C4: when the first name N exists, the name used is B_k.svg with B the
\* name N less its final extension and k the least k >= 1 for which B_k.svg
\* does not exist; when N does not exist, N is used.
C4_CollisionName ==
    pc = "download" =>
        LET N == FirstName(original_filename, item)
            Named(k) == DropExt(N) \o <<"_">> \o IntToStr(k) \o DotSvg
        IN  IF N \in DOMAIN fs
            THEN \E k \in 1..(Cardinality(DOMAIN fs) + 1) :
                    /\ dest = Named(k)
                    /\ Named(k) \notin DOMAIN fs
                    /\ \A j \in 1..(k - 1) : Named(j) \in DOMAIN fs
            ELSE dest = N

\* C5: sanitizing a sanitized name gives the same name.
C5_SanitizeIdempotent == sanPc = "twice" => sanTwice = sanOnce

RECURSIVE LTrim(_)
\* the text with its leading whitespace removed
LTrim(t) == IF t # <<>> /\ Head(t) \in Whitespace THEN LTrim(Tail(t)) ELSE t

\* "svg" lies within the first SvgWindow characters
SvgInWindow(t) ==
    \E i \in 1..(SvgWindow - 2) :
        i + 2 <= Len(t) /\ t[i] = "s" /\ t[i + 1] = "v" /\ t[i + 2] = "g"

\* "svg" occurs in the lower-cased content type
CtHasSvg(h) ==
    \E i \in 1..(Len(h) - 2) :
        LowerChar(h[i]) = "s" /\ LowerChar(h[i + 1]) = "v" /\ LowerChar(h[i + 2]) = "g"

\* C6: a probe response is matched exactly when its status is 200 and its
\* content type (compared in lower case) contains "svg", or its body less
\* leading whitespace starts with "<?xml" and the body has "svg" in its
\* first 200 characters, or its body less leading whitespace starts with
\* "<svg"; so a 200 with a "<svg" body or with an svg content type is
\* matched, and no other status is.
C6_Classification ==
    clsPc = "out" =>
        LET body == LTrim(clsResp.text)
            xml == StartsWith(body, XmlDecl) /\ SvgInWindow(clsResp.text)
            tag == StartsWith(body, SvgTag)
        IN  /\ clsMatched <=> (clsResp.status = 200 /\ (CtHasSvg(clsResp.ctype) \/ xml \/ tag))
            /\ (clsResp.status = 200 /\ tag) => clsMatched
            /\ (clsResp.status = 200 /\ CtHasSvg(clsResp.ctype)) => clsMatched
            /\ clsResp.status # 200 => ~clsMatched

\* C6 witness: a response matched by its XML declaration alone, "svg" ending
\* on the last character of the window, behind leading whitespace.
C6_Witness ==
    /\ clsPc = "out"
    /\ clsMatched
    /\ ~CtHasSvg(clsResp.ctype)
    /\ Len(clsResp.text) >= SvgWindow
    /\ Head(clsResp.text) \in Whitespace
    /\ StartsWith(LTrim(clsResp.text), XmlDecl)
    /\ SubSeq(clsResp.text, SvgWindow - 2, SvgWindow) = SvgWord

\* the five candidates in the order of the specification
C7_Candidates(src) ==
    << [base |-> src.base, query |-> "format=original&redirect=true"],
       [base |-> src.base, query |-> "redirect=true"],
       [base |-> src.base, query |-> "format=original"],
       [base |-> src.base, query |-> ""],
       src >>

\* C7: the candidates of an item are probed in list order; nothing is probed
\* after the first match; HEAD and download go to the first matched
\* candidate; a probe that raises is no match and probing goes on; an item
\* none of whose candidates matches is skipped without HEAD, download or
\* file.
C7_ProbeOrder ==
    /\ [] /\ Len(probeLog) <= 5
          /\ \A i \in 1..Len(probeLog) :
                /\ HasSrc(item.src)
                /\ probeLog[i].url = C7_Candidates(item.src)[i]
                /\ i < Len(probeLog) => ~probeLog[i].matched
          /\ pc = "probe" => /\ Len(probeLog) < 5
                             /\ \A i \in 1..Len(probeLog) : ~probeLog[i].matched
          /\ pc \in {"head", "resolve", "download"} =>
                /\ probeLog # <<>>
                /\ Last(probeLog).matched
                /\ successful_url = Last(probeLog).url
          /\ dl_result # "none" =>
                /\ probeLog # <<>>
                /\ Last(probeLog).matched
                /\ reqKind = "get"
                /\ reqUrl = Last(probeLog).url
          /\ probeExc => ~Last(probeLog).matched
    /\ [][/\ (pc = "probe" /\ probeExc' /\ Len(probeLog') < 5) => pc' = "probe"
          /\ (pc = "probe" /\ ~Last(probeLog').matched /\ Len(probeLog') = 5) =>
                /\ pc' = "yield"
                /\ reqKind' = "probe"
                /\ fs' = fs
          /\ (pc = "yield" /\ item' # NoItem) =>
                IF HasSrc(item'.src)
                THEN pc' = "probe"
                ELSE pc' = "yield" /\ UNCHANGED <<fs, reqKind, reqUrl, gap>>
          /\ (reqKind' \in {"head", "get"} /\ reqKind' # reqKind) =>
                /\ pc = (IF reqKind' = "head" THEN "head" ELSE "download")
                /\ reqUrl' = Last(probeLog).url
         ]_vars

\* C7 witness: the third candidate matched after two that did not; the
\* item is at its HEAD request.
C7_Witness ==
    /\ pc = "head"
    /\ Len(probeLog) = 3
    /\ Last(probeLog).matched
    /\ successful_url = [base |-> "u", query |-> "format=original"]

\* C8: the enumerator requests the first page with the item-type filter,
\* then one page per returned cursor with that cursor in the request and the
\* filter kept, yields every item of every page, and stops at the first
\* response without a cursor.
C8_Enumeration ==
    /\ pc = "fetch" =>
          /\ url.type = scanned_types[typeIdx]
          /\ pagesFetched = 0 => url.cursor = NoneCursor
          /\ pagesFetched > 0 => (url.cursor = cursor /\ cursor \notin {NoneCursor, EmptyCursor})
    /\ pc \in {"next_type", "summary", "done"} => item_count = servedCount

\* C9: any two consecutive HTTP requests are at least 250 ms of sleep apart.
C9_RateLimit == gap = -1 \/ gap >= 250

\* a non-empty file name was recovered from the HEAD response
C10_Recovered == original_filename.some /\ Len(original_filename.val) > 0

\* C10: total_saved is the sum of the two name counters and the number of
\* new files; a download that completes increments total_saved and exactly
\* one name counter, the original-name one iff a non-empty name was
\* recovered; no other step changes a counter.
C10_Counters ==
    /\ [] /\ total_saved = files_with_original_names + files_with_generated_names
          /\ DOMAIN fs0 \subseteq DOMAIN fs
          /\ Cardinality(DOMAIN fs \ DOMAIN fs0) = total_saved
    /\ [][IF pc = "download" /\ dl_result' = "ok"
          THEN /\ total_saved' = total_saved + 1
               /\ C10_Recovered =>
                    /\ files_with_original_names' = files_with_original_names + 1
                    /\ files_with_generated_names' = files_with_generated_names
               /\ ~C10_Recovered =>
                    /\ files_with_original_names' = files_with_original_names
                    /\ files_with_generated_names' = files_with_generated_names + 1
          ELSE UNCHANGED <<total_saved, files_with_original_names,
                           files_with_generated_names>>]_vars

\* C10 witness: the run ended with two files saved, one under its original
\* name and one under a generated name.
C10_Witness ==
    /\ total_saved = 2
    /\ files_with_original_names = 1
    /\ files_with_generated_names = 1
    /\ pc = "done"

====
